---- MODULE Spec2Model ----
(***************************************************************************)
(* A model of PLOTTING_SCRIPTS/create_correlation_matrix.py: the pass of   *)
(* calc_stats over the ordered measure list, the masks of calc_masks, the  *)
(* star annotation of add_stars and plot_matrix, which calls the three.    *)
(*                                                                         *)
(* The data frame is seen through what the code reads of it: the number of *)
(* distinct values of each column (df[y].nunique()).  The statistics       *)
(* library is seen through what the code reads of a fitted model: the      *)
(* p-value and the coefficient of a term.  Indices are 1-based here and    *)
(* 0-based in the source; every index is shifted by the same one.          *)
(***************************************************************************)
EXTENDS Integers, Sequences, FiniteSets, TLC

\* ---------------------------------------------------------------- bounds
MaxN == 3
MaxUnique == 3

\* ------------------------------------------------------ program constants
\* df[y].nunique() == 2 : the dichotomous test
BinaryCount == 2
\* p-values are counted in units of 0.0001, so One is 1.0
One == 10000
P05 == 500
P01 == 100
P001 == 10

Names == 1..MaxN
Uniques == 1..MaxUnique

\* The p-values a fitted model may report, in units of 0.0001: the three
\* thresholds of add_stars, their neighbours, and the examples 0.0001, 0.005,
\* 0.04 and 0.5.
PGrid == <<0, 1, 9, 10, 11, 50, 99, 100, 101, 400, 499, 500, 501, 5000, 10000>>

VARIABLES measures, nunique, tri, star,
          pc, i, j, lm_all, lm_pair,
          pairP_mat, pairES_mat, partP_mat, partES_mat,
          trace, fig, maskR, maskO, P_mat, k, texts, ret

inputs == <<measures, nunique, tri, star>>
mats == <<pairP_mat, pairES_mat, partP_mat, partES_mat>>
plotvars == <<fig, maskR, maskO, P_mat, k, texts>>
vars == <<measures, nunique, tri, star, pc, i, j, lm_all, lm_pair,
          pairP_mat, pairES_mat, partP_mat, partES_mat,
          trace, fig, maskR, maskO, P_mat, k, texts, ret>>

\* ---------------------------------------------------------------- helpers
N == Len(measures)
Cells(n) == (1..n) \X (1..n)

\* [z for z in lst if keep(z)]
RECURSIVE Filter(_, _)
Filter(lst, drop) ==
    IF lst = <<>> THEN <<>>
    ELSE IF Head(lst) \in drop THEN Filter(Tail(lst), drop)
         ELSE <<Head(lst)>> \o Filter(Tail(lst), drop)

\* np.ones([len(measures), len(measures)])
ones_array(n) == [c \in Cells(n) |-> One]

\* The effect-size matrices start as ones as well; their cells are terms.
ES_One == <<"one">>
NaN == <<"nan">>

setup_arrays(ms) ==
    [pairP |-> ones_array(Len(ms)),
     pairES |-> [c \in Cells(Len(ms)) |-> ES_One],
     partP |-> ones_array(Len(ms)),
     partES |-> [c \in Cells(Len(ms)) |-> ES_One]]

\* fit_model's choice of the regression, from the outcome's column
FitKind(y) == IF nunique[y] = BinaryCount THEN "logit" ELSE "ols"

\* The fitted model fit_model returns: which regression, of what on what.
fit_model(role, y, preds) ==
    [role |-> role, y |-> y, preds |-> preds, kind |-> FitKind(y)]

\* ols(formula, df).fit() as partial_correlation calls it: always least squares
ols(role, y, preds) ==
    [role |-> role, y |-> y, preds |-> preds, kind |-> "ols"]

\* A formula 'y ~ ' with nothing on its right-hand side is rejected by the
\* formula parser: the fit raises before any model is built.
FormulaParses(preds) == Len(preds) > 0

\* lm.pvalues[x]: fixed by the data and the model, so a function of both.
pvalues(lm, x) ==
    PGrid[((7 * lm.y + 3 * x + 5 * Len(lm.preds)
            + (IF lm.kind = "logit" THEN 1 ELSE 0)) % Len(PGrid)) + 1]

\* np.exp(lm.params)[x]
exp_params(lm, x) == <<"exp", lm, x>>

\* pearsonr(df[a], df[b])[0]: not a number when either column is constant
pearsonr(a, b) ==
    IF nunique[a] <= 1 \/ nunique[b] <= 1 THEN NaN ELSE <<"pearsonr", a, b>>

\* What the pass has done so far, in order: every fit attempted (numeric says
\* whether the numerical fit would succeed, ok whether the call returned a
\* model), every raw correlation computed and every cell given its p-values.
FitEvent(lm, numeric, ok) == [ev |-> "fit", lm |-> lm, numeric |-> numeric, ok |-> ok]
StatEvent(a, b, ok) == [ev |-> "pearsonr", a |-> a, b |-> b, ok |-> ok]
WriteEvent(r, c) == [ev |-> "write", r |-> r, c |-> c]

\* partial_correlation(df, x, y, measures): the two residual models and the
\* correlation of their residuals.  okx and oky say whether the numerical fit
\* of each model succeeds; a fit whose formula does not parse never does, and
\* lm_y is not attempted once lm_x has raised.
partial_covars(ms, x, y) == Filter(ms, {x, y})

partial_correlation(x, y, ms, okx, oky) ==
    LET covars == partial_covars(ms, x, y)
        lm_x == ols("lm_x", x, covars)
        lm_y == ols("lm_y", y, covars)
        fx == okx /\ FormulaParses(covars)
        fy == oky /\ FormulaParses(covars)
    IN  [events |-> <<FitEvent(lm_x, okx, fx)>>
                    \o (IF fx THEN <<FitEvent(lm_y, oky, fy)>> ELSE <<>>),
         ok |-> fx /\ fy,
         r |-> <<"pearsonr_resid", lm_x, lm_y>>]

\* ------------------------------------------------------------- calc_stats
NoModel == [role |-> "none", y |-> 0, preds |-> <<>>, kind |-> "none"]
NoMatrix == <<>>

\* if not i == j  (IsDiagonal_Never: the test left out)
IsDiagonal_Never(a, b) == FALSE
IsDiagonal(a, b) == a = b

\* if df[y].nunique() == 2, the effect-size branch of a cell (y the row's
\* measure, x the column's)  (ES_Binary_ByColumn: the column's Kind instead)
ES_Binary_ByColumn(y, x) == nunique[x] = BinaryCount
ES_Binary(y, x) == nunique[y] = BinaryCount

\* partP_mat[i, j] = lm_all.pvalues[x]  (partP_value_FromPair: lm_pair's instead)
partP_value_FromPair(all, pair, x) == pvalues(pair, x)
partP_value(all, pair, x) == pvalues(all, x)

\* No call of calc_stats, fit_model or partial_correlation is inside a try
\* block: an exception raised at any of them leaves every frame.
\* (Propagates_SkipPair: the pairwise fit wrapped in try/except: pass)
Propagates_SkipPair(site) == site # "lm_pair"
Propagates(site) == TRUE

\* Where the double loop goes after cell (i, j)
AdvancePc(n) == IF j < n THEN "cell" ELSE "row"
AdvanceI(n) == IF j < n THEN i ELSE i + 1
AdvanceJ(n) == IF j < n THEN j + 1 ELSE 1


\* lines 31-32: the four arrays of ones
SetupArrays ==
    /\ pc = "start"
    /\ pairP_mat' = setup_arrays(measures).pairP
    /\ pairES_mat' = setup_arrays(measures).pairES
    /\ partP_mat' = setup_arrays(measures).partP
    /\ partES_mat' = setup_arrays(measures).partES
    /\ pc' = "row"
    /\ i' = 1
    /\ UNCHANGED <<inputs, j, lm_all, lm_pair, trace, plotvars, ret>>

\* lines 35-46: the head of row i, where the full model is fitted
CalcStatsRow ==
    /\ pc = "row"
    /\ i <= N
    /\ LET y == measures[i]
           covars == Filter(measures, {y})
           lm == fit_model("lm_all", y, covars)
       IN \E fits \in BOOLEAN :
            LET ok == fits /\ FormulaParses(covars)
            IN /\ trace' = Append(trace, FitEvent(lm, fits, ok))
               /\ lm_all' = IF ok THEN lm ELSE lm_all
               /\ IF ok \/ ~Propagates("lm_all")
                  THEN pc' = "cell" /\ j' = 1 /\ ret' = ret
                  ELSE pc' = "failed" /\ j' = j /\ ret' = "raised"
    /\ UNCHANGED <<inputs, i, lm_pair, mats, plotvars>>

\* lines 50-54 with i == j: nothing is done for a diagonal cell
CellDiagonal ==
    /\ pc = "cell"
    /\ IsDiagonal(i, j)
    /\ pc' = AdvancePc(N)
    /\ i' = AdvanceI(N)
    /\ j' = AdvanceJ(N)
    /\ UNCHANGED <<inputs, lm_all, lm_pair, mats, trace, plotvars, ret>>

\* lines 58-64: the pairwise model of the cell and the two p-values
CellPair ==
    /\ pc = "cell"
    /\ ~IsDiagonal(i, j)
    /\ LET y == measures[i]
           x == measures[j]
           lm == fit_model("lm_pair", y, <<x>>)
       IN \E fits \in BOOLEAN :
            LET ok == fits /\ FormulaParses(<<x>>)
                pair == IF ok THEN lm ELSE lm_pair
            IN /\ lm_pair' = pair
               /\ IF ok \/ ~Propagates("lm_pair")
                  THEN /\ pairP_mat' = [pairP_mat EXCEPT ![<<i, j>>] = pvalues(pair, x)]
                       /\ partP_mat' = [partP_mat EXCEPT ![<<i, j>>] = partP_value(lm_all, pair, x)]
                       /\ trace' = trace \o <<FitEvent(lm, fits, ok), WriteEvent(i, j)>>
                       /\ pc' = "es"
                       /\ ret' = ret
                  ELSE /\ UNCHANGED <<pairP_mat, partP_mat>>
                       /\ trace' = Append(trace, FitEvent(lm, fits, ok))
                       /\ pc' = "failed"
                       /\ ret' = "raised"
    /\ UNCHANGED <<inputs, i, j, lm_all, pairES_mat, partES_mat, plotvars>>

\* lines 67-69: a dichotomous outcome, the two odds ratios
CellBinary ==
    /\ pc = "es"
    /\ ES_Binary(measures[i], measures[j])
    /\ pairES_mat' = [pairES_mat EXCEPT ![<<i, j>>] = exp_params(lm_pair, measures[j])]
    /\ partES_mat' = [partES_mat EXCEPT ![<<i, j>>] = exp_params(lm_all, measures[j])]
    /\ pc' = AdvancePc(N)
    /\ i' = AdvanceI(N)
    /\ j' = AdvanceJ(N)
    /\ UNCHANGED <<inputs, lm_all, lm_pair, pairP_mat, partP_mat, trace, plotvars, ret>>

\* lines 70-72: any other outcome, the correlation and the partial correlation
CellContinuous ==
    /\ pc = "es"
    /\ ~ES_Binary(measures[i], measures[j])
    /\ \E okr \in BOOLEAN, okx \in BOOLEAN, oky \in BOOLEAN :
         LET y == measures[i]
             x == measures[j]
             pc_res == partial_correlation(x, y, measures, okx, oky)
         IN IF ~okr /\ Propagates("pearsonr")
            THEN \* pearsonr raises at line 71
                 /\ UNCHANGED <<pairES_mat, partES_mat, i, j>>
                 /\ trace' = Append(trace, StatEvent(x, y, okr))
                 /\ pc' = "failed"
                 /\ ret' = "raised"
            ELSE /\ pairES_mat' = IF okr
                                  THEN [pairES_mat EXCEPT ![<<i, j>>] = pearsonr(x, y)]
                                  ELSE pairES_mat
                 /\ trace' = (trace \o <<StatEvent(x, y, okr)>>) \o pc_res.events
                 /\ IF pc_res.ok \/ ~Propagates("partial_correlation")
                    THEN /\ partES_mat' = IF pc_res.ok
                                          THEN [partES_mat EXCEPT ![<<i, j>>] = pc_res.r]
                                          ELSE partES_mat
                         /\ pc' = AdvancePc(N)
                         /\ i' = AdvanceI(N)
                         /\ j' = AdvanceJ(N)
                         /\ ret' = ret
                    ELSE /\ UNCHANGED <<partES_mat, i, j>>
                         /\ pc' = "failed"
                         /\ ret' = "raised"
    /\ UNCHANGED <<inputs, lm_all, lm_pair, pairP_mat, partP_mat, plotvars>>

\* lines 74-75 and 177-178: the four matrices go back to plot_matrix
CalcStatsReturn ==
    /\ pc = "row"
    /\ i > N
    /\ pc' = "figure"
    /\ fig' = 1
    /\ UNCHANGED <<inputs, i, j, lm_all, lm_pair, mats, trace,
                   maskR, maskO, P_mat, k, texts, ret>>

\* ------------------------------------------------------------- calc_masks
\* measures.index(y): the first position that holds y
Index(ms, y) == CHOOSE q \in 1..Len(ms) :
                    /\ ms[q] = y
                    /\ \A q2 \in 1..(q - 1) : ms[q2] # y

\* np.ones for a mask: a cell is drawn where its mask is 0
mask_ones(n) == [c \in Cells(n) |-> 1]

\* mask[row, :] = 0
ZeroRow(m, row) == [c \in DOMAIN m |-> IF c[1] = row THEN 0 ELSE m[c]]

\* if df[y].nunique() == 2, the test of the mask loop
\* (MaskBinary_AtMostTwo: <= 2 in place of == 2)
MaskBinary_AtMostTwo(y) == nunique[y] <= BinaryCount
MaskBinary(y) == nunique[y] = BinaryCount

\* The loop of lines 278-282 over the rest of the list; m.O and m.R are the
\* masks so far.
RECURSIVE MaskLoop(_, _, _)
MaskLoop(ms, rest, m) ==
    IF rest = <<>> THEN m
    ELSE LET y == Head(rest)
         IN MaskLoop(ms, Tail(rest),
                     IF MaskBinary(y)
                     THEN [m EXCEPT !.O = ZeroRow(m.O, Index(ms, y))]
                     ELSE [m EXCEPT !.R = ZeroRow(m.R, Index(ms, y))])

\* np.triu(ones_array): ones on and above the diagonal, zeros below it
triu(n) == [c \in Cells(n) |-> IF c[2] >= c[1] THEN 1 ELSE 0]

\* maskR + maskTri, cell by cell  (AddTri_Multiply: the product the comment
\* at lines 288-292 warns against)
AddTri_Multiply(m, t) == [c \in DOMAIN m |-> m[c] * t[c]]
AddTri(m, t) == [c \in DOMAIN m |-> m[c] + t[c]]

calc_masks(ms, t) ==
    LET m == MaskLoop(ms, ms, [O |-> mask_ones(Len(ms)), R |-> mask_ones(Len(ms))])
    IN IF t THEN [R |-> AddTri(m.R, triu(Len(ms))), O |-> AddTri(m.O, triu(Len(ms)))]
       ELSE m

\* np.ma.masked_array(ES_mat, mask=m): a cell shows where the mask is zero
Drawn(m, c) == m[c] = 0

\* -------------------------------------------------------------- add_stars
\* P_mat.shape[0]
shape0(M) == CHOOSE n \in 0..(MaxN + 1) : DOMAIN M = Cells(n)

\* Every cell of an n x n array, row by row
RowMajor(n) == [q \in 1..(n * n) |-> <<((q - 1) \div n) + 1, ((q - 1) % n) + 1>>]

\* np.triu_indices_from(M, k=d), zipped: the cells on or above the d-th
\* diagonal, row by row
triu_indices_from(M, d) ==
    LET Keep(c) == c[2] - c[1] >= d
    IN SelectSeq(RowMajor(shape0(M)), Keep)

\* lines 367-370
star_inds(M, t) ==
    IF t THEN triu_indices_from(M, 0)
    ELSE triu_indices_from(M, shape0(M) * (-1))

\* lines 376-382: the text for a p-value
stars(p) ==
    IF P01 < p /\ p < P05 THEN "*"
    ELSE IF P001 <= p /\ p < P01 THEN "**"
    ELSE IF p < P001 THEN "***"
    ELSE ""

\* ax.text(i, j, star): the first argument is the x of the text, the second
\* its y.  imshow shows array cell [r, c] at x = c, y = r.
ax_text(a, b, s) == [x |-> a, y |-> b, s |-> s]

\* lines 373-387: one turn of the loop over the index pairs
AddStarsStep ==
    /\ pc = "add_stars"
    /\ k <= Len(star_inds(P_mat, tri))
    /\ LET ij == star_inds(P_mat, tri)[k]
       IN texts' = Append(texts, ax_text(ij[1], ij[2], stars(P_mat[ij])))
    /\ k' = k + 1
    /\ UNCHANGED <<inputs, pc, i, j, lm_all, lm_pair, mats, trace,
                   fig, maskR, maskO, P_mat, ret>>

\* line 389: back to the caller, plot_matrix's loop when it made the call
AddStarsReturn ==
    /\ pc = "add_stars"
    /\ k > Len(star_inds(P_mat, tri))
    /\ IF fig = 0
       THEN pc' = "done" /\ fig' = fig /\ ret' = "returned"
       ELSE pc' = "figure" /\ fig' = fig + 1 /\ ret' = ret
    /\ UNCHANGED <<inputs, i, j, lm_all, lm_pair, mats, trace,
                   maskR, maskO, P_mat, k, texts>>

\* ------------------------------------------------------------ plot_matrix
\* lines 189-248: one figure, the pairwise one first
PlotFigure ==
    /\ pc = "figure"
    /\ fig <= 2
    /\ P_mat' = IF fig = 1 THEN pairP_mat ELSE partP_mat
    /\ maskR' = calc_masks(measures, tri).R
    /\ maskO' = calc_masks(measures, tri).O
    /\ texts' = <<>>
    /\ IF star
       THEN pc' = "add_stars" /\ k' = 1 /\ fig' = fig
       ELSE pc' = "figure" /\ k' = k /\ fig' = fig + 1
    /\ UNCHANGED <<inputs, i, j, lm_all, lm_pair, mats, trace, ret>>

\* line 251
PlotReturn ==
    /\ pc = "figure"
    /\ fig > 2
    /\ pc' = "done"
    /\ ret' = "returned"
    /\ UNCHANGED <<inputs, i, j, lm_all, lm_pair, mats, trace, plotvars>>

\* ---------------------------------------------------------- specification
Range(s) == {s[q] : q \in 1..Len(s)}
\* The measure lists: n distinct column names, in rising or in falling order
\* of name.  Which Kind stands at which position is left to nunique.
Rising(n) == [q \in 1..n |-> q]
Falling(n) == [q \in 1..n |-> MaxN + 1 - q]
MeasureLists == UNION {{Rising(n), Falling(n)} : n \in 2..MaxN}

Init ==
    /\ measures \in MeasureLists
    /\ nunique \in [Range(measures) -> Uniques]
    /\ tri \in BOOLEAN
    /\ star \in BOOLEAN
    /\ pc = "start"
    /\ i = 0
    /\ j = 0
    /\ lm_all = NoModel
    /\ lm_pair = NoModel
    /\ pairP_mat = NoMatrix
    /\ pairES_mat = NoMatrix
    /\ partP_mat = NoMatrix
    /\ partES_mat = NoMatrix
    /\ trace = <<>>
    /\ fig = 0
    /\ maskR = NoMatrix
    /\ maskO = NoMatrix
    /\ P_mat = NoMatrix
    /\ k = 0
    /\ texts = <<>>
    /\ ret = "pending"

Next ==
    \/ SetupArrays
    \/ CalcStatsRow
    \/ CellDiagonal
    \/ CellPair
    \/ CellBinary
    \/ CellContinuous
    \/ CalcStatsReturn
    \/ PlotFigure
    \/ AddStarsStep
    \/ AddStarsReturn
    \/ PlotReturn

Spec == Init /\ [][Next]_vars

\* add_stars on its own: any P matrix with the diagonal of ones calc_stats
\* leaves, the cells above the diagonal and below it drawn independently.
StarMatrix(n, a, b) ==
    [c \in Cells(n) |->
        IF c[1] = c[2] THEN One
        ELSE IF c[1] < c[2]
             THEN PGrid[((a + 2 * (c[1] - 1) + (c[2] - 2)) % Len(PGrid)) + 1]
             ELSE PGrid[((b + 2 * (c[2] - 1) + (c[1] - 2)) % Len(PGrid)) + 1]]

StarInputs ==
    {StarMatrix(n, a, b) : n \in 2..MaxN, a \in 0..(Len(PGrid) - 1),
                           b \in 0..(Len(PGrid) - 1)}

InitStars ==
    /\ P_mat \in StarInputs
    /\ tri \in BOOLEAN
    /\ star = TRUE
    /\ measures = <<>>
    /\ nunique = <<>>
    /\ pc = "add_stars"
    /\ i = 0
    /\ j = 0
    /\ lm_all = NoModel
    /\ lm_pair = NoModel
    /\ pairP_mat = NoMatrix
    /\ pairES_mat = NoMatrix
    /\ partP_mat = NoMatrix
    /\ partES_mat = NoMatrix
    /\ trace = <<>>
    /\ fig = 0
    /\ maskR = NoMatrix
    /\ maskO = NoMatrix
    /\ k = 1
    /\ texts = <<>>
    /\ ret = "pending"

NextStars ==
    \/ AddStarsStep
    \/ AddStarsReturn

SpecStars == InitStars /\ [][NextStars]_vars

\* ------------------------------------------------------------- properties
Built == pc # "start"
CalcStatsReturned == pc \in {"figure", "add_stars", "done"}
MasksBuilt == maskR # NoMatrix
OffDiagonal(n) == {c \in Cells(n) : c[1] # c[2]}

\* Cell (r, c) has had both of its steps: the loop is past it.
CellDone(r, c) == Built /\ (r < i \/ (r = i /\ c < j))

\* The position in the trace of the p-value write of cell (r, c), 0 if none
WriteAt(r, c) ==
    LET S == {q \in 1..Len(trace) :
                 /\ trace[q].ev = "write"
                 /\ trace[q].r = r
                 /\ trace[q].c = c}
    IN IF S = {} THEN 0 ELSE CHOOSE q \in S : TRUE

\* C1: the four matrices are N x N and every diagonal cell of the four is 1.0,
\* in every state of the building pass and in the result.
C1_DiagonalStaysOne ==
    Built =>
        /\ DOMAIN pairP_mat = Cells(N)
        /\ DOMAIN pairES_mat = Cells(N)
        /\ DOMAIN partP_mat = Cells(N)
        /\ DOMAIN partES_mat = Cells(N)
        /\ \A q \in 1..N :
              /\ pairP_mat[<<q, q>>] = One
              /\ partP_mat[<<q, q>>] = One
              /\ pairES_mat[<<q, q>>] = ES_One
              /\ partES_mat[<<q, q>>] = ES_One

\* The pass has returned for a list of three, every off-diagonal cell written.
C1_Witness ==
    /\ pc = "done"
    /\ ret = "returned"
    /\ N = 3
    /\ \A c \in OffDiagonal(N) : pairES_mat[c] # ES_One /\ WriteAt(c[1], c[2]) # 0
    /\ \E c \in OffDiagonal(N) : pairP_mat[c] # One

\* What cell (r, c) must hold once written: by the Kind of measure r alone.
C2_PairModel(r, c) ==
    [role |-> "lm_pair", y |-> measures[r], preds |-> <<measures[c]>>, kind |-> "logit"]
C2_FullModel(r) ==
    [role |-> "lm_all", y |-> measures[r],
     preds |-> SelectSeq(measures, LAMBDA z : z # measures[r]), kind |-> "logit"]
C2_Residual(role, r, c, of) ==
    [role |-> role, y |-> measures[of],
     preds |-> SelectSeq(measures, LAMBDA z : z # measures[r] /\ z # measures[c]),
     kind |-> "ols"]
C2_PairES(r, c) ==
    IF nunique[measures[r]] = 2
    THEN <<"exp", C2_PairModel(r, c), measures[c]>>
    ELSE IF nunique[measures[r]] = 1 \/ nunique[measures[c]] = 1
         THEN NaN
         ELSE <<"pearsonr", measures[c], measures[r]>>
C2_PartES(r, c) ==
    IF nunique[measures[r]] = 2
    THEN <<"exp", C2_FullModel(r), measures[c]>>
    ELSE <<"pearsonr_resid", C2_Residual("lm_x", r, c, c), C2_Residual("lm_y", r, c, r)>>

\* C2: in every off-diagonal cell (i, j) measure i is the outcome and measure
\* j the predictor, and the Kind of measure i alone picks the effect size:
\* exp of j's coefficient in the pairwise and in the full model of i when i is
\* Binary, Pearson r of columns j and i and their partial correlation given
\* all the others when i is Continuous.
C2_EffectSizeByRowKind ==
    Built =>
        \A c \in OffDiagonal(N) :
            /\ pairES_mat[c] \in {ES_One, C2_PairES(c[1], c[2])}
            /\ partES_mat[c] \in {ES_One, C2_PartES(c[1], c[2])}
            /\ CellDone(c[1], c[2]) =>
                  /\ pairES_mat[c] = C2_PairES(c[1], c[2])
                  /\ partES_mat[c] = C2_PartES(c[1], c[2])

\* A finished pass over three measures with a Binary row that has a
\* Continuous column and a Continuous row that has a Binary column.
C2_Witness ==
    /\ CalcStatsReturned
    /\ N = 3
    /\ \E c \in OffDiagonal(N) :
          /\ nunique[measures[c[1]]] = 2
          /\ nunique[measures[c[2]]] = 3
          /\ pairES_mat[c][1] = "exp"
          /\ partES_mat[<<c[2], c[1]>>][1] = "pearsonr_resid"

\* C3: a failure of any fit or statistic ends the invocation there: the
\* failed step is the last thing the pass did (no further fit, no retry, no
\* cell written after it) and nothing is returned, by calc_stats or by
\* plot_matrix.
C3_FailureIsTerminal ==
    /\ \A q \in 1..Len(trace) :
          (trace[q].ev # "write" /\ ~trace[q].ok) =>
              /\ q = Len(trace)
              /\ pc = "failed"
              /\ ret = "raised"
    /\ pc = "failed" =>
          /\ ret = "raised"
          /\ Len(trace) > 0
          /\ trace[Len(trace)].ev # "write"
          /\ ~trace[Len(trace)].ok
          /\ maskR = NoMatrix
          /\ P_mat = NoMatrix
    /\ (CalcStatsReturned \/ ret = "returned") => pc # "failed"

\* A fit inside partial_correlation fails after earlier cells were written.
C3_Witness ==
    /\ pc = "failed"
    /\ ret = "raised"
    /\ trace[Len(trace)].ev = "fit"
    /\ trace[Len(trace)].lm.role = "lm_y"
    /\ \E q \in 1..Len(trace) : trace[q].ev = "write"
    /\ \E c \in OffDiagonal(N) : pairES_mat[c] # ES_One

\* The rows whose cells calc_masks can leave drawn: all of them, or with tri
\* those below the diagonal.
Showable == {c \in Cells(N) : ~tri \/ c[2] < c[1]}

\* C4: a measure is Binary exactly when its column has 2 distinct values,
\* and fit_model, calc_stats and calc_masks agree on it: with measure i as the
\* outcome fit_model fits a logistic regression exactly when row i takes
\* the exp branch and exactly when row i is unmasked in the odds-ratio mask;
\* it fits least squares exactly when row i takes the Pearson branch and is
\* unmasked in the Pearson mask.
C4_OneKindRule ==
    Built =>
        /\ \A q \in 1..Len(trace) :
              (trace[q].ev = "fit" /\ trace[q].lm.role \in {"lm_all", "lm_pair"}) =>
                  /\ trace[q].lm.kind = "logit" <=> nunique[trace[q].lm.y] = 2
                  /\ trace[q].lm.kind = "ols" <=> nunique[trace[q].lm.y] # 2
        /\ \A c \in OffDiagonal(N) :
              CellDone(c[1], c[2]) =>
                  /\ pairES_mat[c][1] = "exp" <=> nunique[measures[c[1]]] = 2
                  /\ partES_mat[c][1] = "exp" <=> nunique[measures[c[1]]] = 2
                  /\ pairES_mat[c][1] \in {"pearsonr", "nan"} <=> nunique[measures[c[1]]] # 2
                  /\ partES_mat[c][1] = "pearsonr_resid" <=> nunique[measures[c[1]]] # 2
        /\ MasksBuilt =>
              \A c \in Showable :
                  /\ Drawn(maskO, c) <=> nunique[measures[c[1]]] = 2
                  /\ Drawn(maskR, c) <=> nunique[measures[c[1]]] # 2

\* The masks are built after a pass over a constant, a two-valued and a
\* many-valued column, and cells of all three rows can show.
C4_Witness ==
    /\ MasksBuilt
    /\ N = 3
    /\ ~tri
    /\ {nunique[measures[q]] : q \in 1..N} = {1, 2, 3}
    /\ \E c \in Showable : Drawn(maskO, c)
    /\ \E c \in Showable : Drawn(maskR, c) /\ nunique[measures[c[1]]] = 1

\* The calls of fit_model so far, in order
FitModelLog ==
    SelectSeq(trace, LAMBDA e : e.ev = "fit" /\ e.lm.role \in {"lm_all", "lm_pair"})

\* The q-th call of fit_model a whole pass makes: row by row, the full model
\* of the row and then one pairwise model for each other column in list order.
C5_Expected(q) ==
    LET r == ((q - 1) \div N) + 1
        t == (q - 1) % N
        c == IF t < r THEN t ELSE t + 1
    IN IF t = 0
       THEN <<"lm_all", measures[r], SelectSeq(measures, LAMBDA z : z # measures[r])>>
       ELSE <<"lm_pair", measures[r], <<measures[c]>>>>

C5_FullFits(y) ==
    {q \in 1..Len(trace) :
        /\ trace[q].ev = "fit"
        /\ trace[q].lm.role = "lm_all"
        /\ trace[q].lm.y = y}
C5_PairFits(y, x) ==
    {q \in 1..Len(trace) :
        /\ trace[q].ev = "fit"
        /\ trace[q].lm.role = "lm_pair"
        /\ trace[q].lm.y = y
        /\ trace[q].lm.preds = <<x>>}

\* C5: the full model of row i is fitted once, before any cell of the row is
\* written, and supplies partP[i,j] for every j; one pairwise model is fitted
\* per off-diagonal cell and supplies pairP[i,j]; the calls of fit_model come
\* in list order, row by row and column by column, and a pass that returns
\* has made N full-model fits and N*(N-1) pairwise ones.
C5_OneFullFitPerRow ==
    Built =>
        LET log == FitModelLog
            writes == {q \in 1..Len(trace) : trace[q].ev = "write"}
            written == {<<trace[q].r, trace[q].c>> : q \in writes}
        IN
        /\ Len(log) <= N * N
        /\ \A q \in 1..Len(log) :
              <<log[q].lm.role, log[q].lm.y, log[q].lm.preds>> = C5_Expected(q)
        /\ \A r \in 1..N : Cardinality(C5_FullFits(measures[r])) <= 1
        /\ \A w \in writes :
              LET c == <<trace[w].r, trace[w].c>>
                  y == measures[c[1]]
                  x == measures[c[2]]
                  full == C5_FullFits(y)
                  pair == C5_PairFits(y, x)
              IN /\ c \in OffDiagonal(N)
                 /\ Cardinality(full) = 1
                 /\ Cardinality(pair) = 1
                 /\ \A f \in full :
                       /\ f < w
                       /\ trace[f].ok
                       /\ partP_mat[c] = pvalues(trace[f].lm, x)
                 /\ \A f \in pair :
                       /\ f < w
                       /\ trace[f].ok
                       /\ pairP_mat[c] = pvalues(trace[f].lm, x)
        /\ \A c \in Cells(N) \ written : pairP_mat[c] = One /\ partP_mat[c] = One
        /\ CalcStatsReturned =>
              /\ Len(log) = N * N
              /\ Cardinality({q \in 1..Len(log) : log[q].lm.role = "lm_all"}) = N
              /\ Cardinality({q \in 1..Len(log) : log[q].lm.role = "lm_pair"})
                    = N * (N - 1)
              /\ written = OffDiagonal(N)

\* A pass over three measures has returned: 3 full fits and 6 pairwise ones.
C5_Witness ==
    /\ CalcStatsReturned
    /\ N = 3
    /\ Len(FitModelLog) = 9
    /\ \E c \in OffDiagonal(N) : partP_mat[c] # pairP_mat[c]

\* C7: a cell of a Binary row is never drawn in the Pearson layer and a cell
\* of a Continuous row never in the odds-ratio layer, so no cell is drawn in
\* both; with tri no cell above the diagonal is drawn in either; without tri
\* every cell is drawn in exactly the layer of its row's Kind.
C7_MasksSplitByRowKind ==
    MasksBuilt =>
        /\ DOMAIN maskR = Cells(N)
        /\ DOMAIN maskO = Cells(N)
        /\ \A c \in Cells(N) :
              /\ nunique[measures[c[1]]] = 2 => ~Drawn(maskR, c)
              /\ nunique[measures[c[1]]] # 2 => ~Drawn(maskO, c)
              /\ ~(Drawn(maskR, c) /\ Drawn(maskO, c))
              /\ (tri /\ c[2] > c[1]) => (~Drawn(maskR, c) /\ ~Drawn(maskO, c))
              /\ ~tri =>
                    /\ Drawn(maskO, c) <=> nunique[measures[c[1]]] = 2
                    /\ Drawn(maskR, c) <=> nunique[measures[c[1]]] # 2

\* Masks with tri for a list that mixes the Kinds: a cell below the diagonal
\* is drawn in each layer.
C7_Witness ==
    /\ MasksBuilt
    /\ tri
    /\ N = 3
    /\ \E c \in Cells(N) : c[2] < c[1] /\ Drawn(maskR, c)
    /\ \E c \in Cells(N) : c[2] < c[1] /\ Drawn(maskO, c)

\* The p-value behind the q-th text add_stars has placed
StarSource(q) == P_mat[star_inds(P_mat, tri)[q]]

\* C6: every p-value falls in exactly one of four cases and gets that case's
\* marker: one star in (0.01, 0.05), two in [0.001, 0.01), three below 0.001,
\* none from 0.05 up.
C6_MarkerMappingIsTotal ==
    pc \in {"add_stars", "done"} =>
        \A q \in 1..Len(texts) :
            LET p == StarSource(q)
            IN \/ P01 < p /\ p < P05 /\ texts[q].s = "*"
               \/ P001 <= p /\ p < P01 /\ texts[q].s = "**"
               \/ p < P001 /\ texts[q].s = "***"
               \/ p >= P05 /\ texts[q].s = ""

\* C8: partial_correlation, called for x and y after their raw correlation,
\* fits x and y by least squares on exactly the measures other than the two;
\* with no covariate left (a list of two measures) it completes whenever the
\* two fits can be computed, and the cell gets the correlation of x and y.
C8_NoCovariateCompletes ==
    \A q \in 1..Len(trace) :
        (trace[q].ev = "fit" /\ trace[q].lm.role \in {"lm_x", "lm_y"}) =>
            LET at == IF trace[q].lm.role = "lm_x" THEN q - 1 ELSE q - 2
                x == trace[at].a
                y == trace[at].b
            IN /\ trace[at].ev = "pearsonr"
               /\ trace[q].lm.y = IF trace[q].lm.role = "lm_x" THEN x ELSE y
               /\ trace[q].lm.kind = "ols"
               /\ trace[q].lm.preds = SelectSeq(measures, LAMBDA z : z # x /\ z # y)
               /\ (trace[q].lm.preds = <<>> /\ trace[q].numeric) =>
                     /\ trace[q].ok
                     /\ pc # "failed"

\* C9: with a constant column in the list calc_stats ends in a failure and
\* returns no matrices.
C9_ConstantColumnFails ==
    (Built /\ \E q \in 1..N : nunique[measures[q]] = 1) => ~CalcStatsReturned

\* C10: a marker at x = c, y = r is the marker of P_mat[r, c], the cell the
\* image shows there, and with tri a non-empty marker lies below the diagonal.
C10_MarkerOnItsOwnCell ==
    pc \in {"add_stars", "done"} =>
        \A q \in 1..Len(texts) :
            /\ texts[q].s = stars(P_mat[<<texts[q].y, texts[q].x>>])
            /\ (tri /\ texts[q].s # "") => texts[q].y > texts[q].x

====
